---- MODULE Spec2Model ----
(***************************************************************************)
(* A model of Layers/ELMLayer.py: one ELMLayer instance driven through     *)
(* __init__, build, fit, predict, predict_proba, calc_output,              *)
(* count_params, to_dict and load.                                         *)
(*                                                                         *)
(* Python values.  An attribute that may be None is held as a sequence of  *)
(* length 0 (None) or 1 (the value), so that None is never compared with a *)
(* value of another type.  A Python int that may also be another object    *)
(* (number_neurons) is held as [int |-> n].  A dict is a function from its *)
(* keys to (wrapped) values.                                               *)
(*                                                                         *)
(* Tensors.  A sample batch holds one row, so x, y, H and an output are    *)
(* row vectors (sequences of integers) and pinv(H) has the closed form     *)
(* H^T / (H . H^T).  alpha is a D x N matrix (a sequence of D rows), bias  *)
(* a sequence of length N.  Everything that went through pinv is an exact  *)
(* rational tensor [num |-> integers, den |-> positive integer], kept in   *)
(* lowest terms.                                                           *)
(***************************************************************************)
EXTENDS Integers, Sequences, FiniteSets, TLC

VARIABLES layer, ret, hist

vars == <<layer, ret, hist>>

(* Bounds of the model *)
MaxNeurons == 2
MaxFeatures == 2
MaxOutputs == 2
MaxSeed == 2

(***************************************************************************)
(* Python values                                                           *)
(***************************************************************************)
None == <<>>
Some(v) == <<v>>
Val(o) == o[1]
PyInt(n) == [int |-> n]
IsInt(o) == DOMAIN o = {"int"}

NoLayer == [exists |-> FALSE]

(* What the last call left behind: the method, its arguments, and either  *)
(* the exception it raised or the value it returned.                       *)
Raised(op, args, type) == [op |-> op, args |-> args, kind |-> "error", type |-> type]
Returned(op, args, v) == [op |-> op, args |-> args, kind |-> "value", val |-> v]

(***************************************************************************)
(* Integer and rational tensor arithmetic                                  *)
(***************************************************************************)
Abs(a) == IF a < 0 THEN -a ELSE a

(* a vector and a matrix written out as explicit sequences *)
Vector(v) == v \o <<>>
Matrix(m) == [i \in 1..Len(m) |-> m[i] \o <<>>] \o <<>>

RECURSIVE Gcd(_, _)
Gcd(a, b) == IF b = 0 THEN Abs(a) ELSE Gcd(b, a % b)

RECURSIVE SumTo(_, _)
SumTo(f, n) == IF n = 0 THEN 0 ELSE f[n] + SumTo(f, n - 1)

Dot(u, v) == SumTo([i \in 1..Len(u) |-> u[i] * v[i]], Len(u))

Rows(m) == Len(m)
Cols(m) == Len(m[1])

(* gcd of a non-empty integer matrix's entries and d *)
RECURSIVE GcdSeq(_, _, _)
GcdSeq(s, n, d) == IF n = 0 THEN d ELSE GcdSeq(s, n - 1, Gcd(d, Abs(s[n])))

RECURSIVE GcdMat(_, _, _)
GcdMat(m, n, d) == IF n = 0 THEN d ELSE GcdMat(m, n - 1, GcdSeq(m[n], Len(m[n]), d))

(* the rational matrix num / den in lowest terms (den > 0) *)
Rat(num, den) ==
    LET g == GcdMat(num, Len(num), den)
    IN  [num |-> Matrix([i \in 1..Len(num) |-> [j \in 1..Len(num[i]) |-> num[i][j] \div g]]),
         den |-> den \div g]

(* tf.matmul on integer matrices of matching inner dimension *)
MatMul(a, b) ==
    Matrix([i \in 1..Rows(a) |->
               [j \in 1..Cols(b) |->
                   SumTo([k \in 1..Cols(a) |-> a[i][k] * b[k][j]], Cols(a))]])

Transpose(m) == Matrix([j \in 1..Cols(m) |-> [i \in 1..Rows(m) |-> m[i][j]]])

ZeroMatrix(r, c) == Matrix([i \in 1..r |-> [j \in 1..c |-> 0]])

(* tf.linalg.pinv of a one-row matrix h: h^T / (h . h^T), and 0 for h = 0 *)
Pinv(h) ==
    LET n2 == Dot(h[1], h[1])
    IN  IF n2 = 0 THEN Rat(ZeroMatrix(Cols(h), 1), 1) ELSE Rat(Transpose(h), n2)

(* the largest r with r * r <= n *)
ISqrt(n) == CHOOSE r \in 0..n : r * r <= n /\ n < (r + 1) * (r + 1)

(***************************************************************************)
(* Collaborators whose code lies outside Layers/ELMLayer.py                *)
(***************************************************************************)
(* Resources.ActivationFunction: the names eval("act." + activation) finds *)
ActivationNames == {"tanh", "identity"}

(* an activation applied to the scalar v / den (den > 0), as a numerator   *)
(* over den: identity, and tanh as the saturation of v / den to [-1, 1]    *)
ActScalar(name, v, den) ==
    IF name = "tanh" THEN (IF v > den THEN den ELSE IF v < -den THEN -den ELSE v)
    ELSE v

(* an activation applied elementwise to an integer matrix *)
Activation(name, m) ==
    Matrix([i \in 1..Rows(m) |-> [j \in 1..Cols(m) |-> ActScalar(name, m[i][j], 1)]])

(* BetaOptimizer.optimize(beta, H, y): (refined beta, error history).  The *)
(* identity optimizer returns beta and an empty history; the iterative one *)
(* runs one shrinking step and records the squared error before it.        *)
Optimize(opt, beta, H, y) ==
    IF opt = "identity" THEN [beta |-> beta, error_history |-> <<>>]
    ELSE LET fit0 == MatMul(H, beta.num)
             err == SumTo([k \in 1..Cols(y) |->
                              (fit0[1][k] - beta.den * y[1][k]) * (fit0[1][k] - beta.den * y[1][k])],
                          Cols(y))
         IN  [beta |-> Rat(beta.num, 2 * beta.den),
              error_history |-> <<Rat(<<<<err>>>>, beta.den * beta.den)>>]


(* the classes eval(rf_name) can find: the two imported generators *)
ReceptiveFieldClasses == {"ReceptiveFieldGenerator", "ReceptiveFieldGaussianGenerator"}

(* <Class>.load(params): the generator a serialized layer names *)
ReceptiveFieldLoad(cls) == [rf_name |-> cls]

(* generator.to_dict(): the entries a generator adds to a layer's dict *)
ReceptiveFieldToDict(rf) == [k \in {"rf_name"} |-> Some(rf.rf_name)]

(* generate_receptive_fields(alpha): masks alpha in place, neuron j keeps  *)
(* the one input coordinate of its patch                                   *)
GenerateReceptiveFields(alpha) ==
    Matrix([i \in 1..Rows(alpha) |->
               [j \in 1..Cols(alpha) |->
                   IF ((j - 1) % Rows(alpha)) + 1 = i THEN alpha[i][j] ELSE 0]])

(* generate_contrainted_weights(x, y, n): a D x n matrix computed from the *)
(* samples and their labels                                                *)
GenerateConstrainedWeights(x, y, n) ==
    Matrix([i \in 1..Cols(x) |-> [j \in 1..n |-> x[1][i] * (SumTo(y[1], Cols(y)) + j)]])

(***************************************************************************)
(* ELMLayer.__init__                                                       *)
(***************************************************************************)
Has(d, k) == k \in DOMAIN d

(* variant: an act_params dict none of the branches matches falls back to  *)
(* the plain activation                                                    *)
ActParamsDefaulted(act_params) == act_params = None \/ act_params # None

(* the branch of lines 140-149: does the act_params dict select an         *)
(* ActivationFunction, or does the constructor raise                       *)
ActParamsAccepted(act_params) ==
    \/ act_params = None
    \/ "act_param" \in Val(act_params) /\ "act_param2" \in Val(act_params)
    \/ "act_param" \in Val(act_params)
    \/ "knots" \in Val(act_params)

InitLayer(args) ==
    LET p == args.params
    IN  [exists |-> TRUE,
         error_history |-> None,
         feature_map |-> None,
         name |-> "elm",
         beta |-> IF Has(p, "beta") THEN p["beta"] ELSE None,
         bias |-> IF Has(p, "bias") THEN p["bias"] ELSE None,
         alpha |-> IF Has(p, "alpha") THEN p["alpha"] ELSE None,
         input |-> None,
         output |-> None,
         act_params |-> args.act_params,
         beta_optimizer |-> args.beta_optimizer,
         is_orthogonalized |-> args.is_orthogonalized,
         activation_name |-> args.activation,
         number_neurons |-> args.number_neurons,
         C |-> args.C,
         receptive_field_generator |->
             IF Has(p, "rf_name") THEN Some(ReceptiveFieldLoad(Val(p["rf_name"])))
             ELSE args.receptive_field_generator,
         denoising |-> IF Has(p, "denoising") THEN p["denoising"] ELSE None,
         denoising_param |-> IF Has(p, "denoising_param") THEN p["denoising_param"] ELSE None,
         constrained |-> Has(p, "constrained") /\ p["constrained"] = Some(TRUE)]

(* the exception __init__ raises on these arguments, None if it returns *)
InitError(args) ==
    IF ~ActParamsAccepted(args.act_params) THEN Some("Exception")
    ELSE IF args.activation \notin ActivationNames THEN Some("AttributeError")
    ELSE IF Has(args.params, "rf_name")
            /\ Val(args.params["rf_name"]) \notin ReceptiveFieldClasses THEN Some("NameError")
    ELSE None

(* ELMLayer(number_neurons, ...): the new instance, or the exception *)
Construct(args) ==
    IF InitError(args) # None
    THEN [layer |-> NoLayer, ret |-> Raised("__init__", <<args>>, Val(InitError(args)))]
    ELSE [layer |-> InitLayer(args), ret |-> Returned("__init__", <<args>>, None)]

(***************************************************************************)
(* ELMLayer.build                                                          *)
(***************************************************************************)
(* The ambient random generator, as the list of draws it can produce: the  *)
(* draw with index seed.  Odd draws are upper triangular in {-1, 0, 1}     *)
(* with a one-hot bias, even draws are dense in {-1, 1}.                   *)
RandomUniformAlpha(seed, D, N) ==
    Matrix([i \in 1..D |->
               [j \in 1..N |->
                   IF seed % 2 = 1
                   THEN (IF i <= j THEN 1 - 2 * ((i + j + seed \div 2) % 2) ELSE 0)
                   ELSE 1 - 2 * ((i * j + seed \div 2) % 2)]])

RandomUniformBias(seed, N) ==
    Vector([j \in 1..N |->
               IF seed % 2 = 1
               THEN (IF j = ((seed \div 2) % N) + 1 THEN 1 ELSE 0)
               ELSE (j + seed \div 2) % 2])

Column(m, j) == Vector([i \in 1..Rows(m) |-> m[i][j]])

(* column k of a with its components along the orthonormal columns q removed *)
Residual(a, q, k) ==
    Vector([i \in 1..Rows(a) |->
               Column(a, k)[i]
               - SumTo([m \in 1..Len(q) |-> Dot(Column(a, k), q[m]) * q[m][i]], Len(q))])

(* the first k columns of a, orthonormalized in order (classical           *)
(* Gram-Schmidt); exact when every residual has an integer norm > 0 that   *)
(* divides it                                                              *)
RECURSIVE GramSchmidtColumns(_, _)
GramSchmidtColumns(a, k) ==
    IF k = 0 THEN <<>>
    ELSE LET q == GramSchmidtColumns(a, k - 1)
             r == Residual(a, q, k)
             n == ISqrt(Dot(r, r))
         IN  Append(q, Vector([i \in 1..Rows(a) |-> r[i] \div n]))

gram_schmidt(a) == Transpose(GramSchmidtColumns(a, Cols(a)))

(* is every step of gram_schmidt(a) exact in integers *)
RECURSIVE ExactGramSchmidt(_, _)
ExactGramSchmidt(a, k) ==
    IF k = 0 THEN TRUE
    ELSE /\ ExactGramSchmidt(a, k - 1)
         /\ LET r == Residual(a, GramSchmidtColumns(a, k - 1), k)
                n == ISqrt(Dot(r, r))
            IN  n > 0 /\ n * n = Dot(r, r) /\ \A i \in 1..Rows(a) : r[i] % n = 0

(* bias / tf.norm(bias), exact when the norm is an integer > 0 dividing it *)
UnitNorm(b) == Vector([j \in 1..Len(b) |-> b[j] \div ISqrt(Dot(b, b))])

ExactUnitNorm(b) ==
    LET n == ISqrt(Dot(b, b))
    IN  n > 0 /\ n * n = Dot(b, b) /\ \A j \in 1..Len(b) : b[j] % n = 0

(* variant: build draws alpha and leaves the bias alone *)
BuildAlphaOnly(l, D, seed) ==
    [layer |-> [l EXCEPT !.alpha = Some(RandomUniformAlpha(seed, D, l.number_neurons.int))],
     ret |-> Returned("build", <<D>>, None)]

(* build(input_shape) with input_shape[-1] = D, the generator at draw seed *)
Build(l, D, seed) ==
    LET a == RandomUniformAlpha(seed, D, l.number_neurons.int)
        b == RandomUniformBias(seed, l.number_neurons.int)
    IN  [layer |-> [l EXCEPT !.alpha = Some(IF l.is_orthogonalized THEN gram_schmidt(a) ELSE a),
                             !.bias = Some(IF l.is_orthogonalized THEN UnitNorm(b) ELSE b)],
         ret |-> Returned("build", <<D>>, None)]

(* the draws build's arithmetic is exact on *)
BuildExact(l, D, seed) ==
    IF l.is_orthogonalized
    THEN /\ ExactGramSchmidt(RandomUniformAlpha(seed, D, l.number_neurons.int), l.number_neurons.int)
         /\ ExactUnitNorm(RandomUniformBias(seed, l.number_neurons.int))
    ELSE TRUE

(***************************************************************************)
(* ELMLayer.fit, predict, predict_proba, calc_output                       *)
(***************************************************************************)
(* can a (1 x n) matrix and a bias of length m be added (broadcasting) *)
Broadcastable(n, m) == n = m \/ n = 1 \/ m = 1

(* z + bias, the bias broadcast across the row *)
AddBias(z, bias) ==
    LET w == IF Cols(z) >= Len(bias) THEN Cols(z) ELSE Len(bias)
    IN  <<Vector([j \in 1..w |->
                    (IF Cols(z) = 1 THEN z[1][1] ELSE z[1][j])
                    + (IF Len(bias) = 1 THEN bias[1] ELSE bias[j])])>>

(* H = activation(x . alpha + bias): lines 261-262 and 298-299; the error  *)
(* tf raises on a None or ill-shaped operand, None if H is computed        *)
FeatureMapError(l, x) ==
    IF l.alpha = None THEN Some("ValueError")
    ELSE IF Cols(x) # Rows(Val(l.alpha)) THEN Some("InvalidArgumentError")
    ELSE IF l.bias = None THEN Some("ValueError")
    ELSE IF ~Broadcastable(Cols(Val(l.alpha)), Len(Val(l.bias))) THEN Some("InvalidArgumentError")
    ELSE None

FeatureMap(l, x) ==
    Activation(l.activation_name, AddBias(MatMul(x, Val(l.alpha)), Val(l.bias)))

(* tf.linalg.set_diag(H, tf.linalg.diag_part(H) + C) on a one-row H *)
AddToDiagonal(H, C) ==
    <<Vector([j \in 1..Cols(H) |-> IF j = 1 THEN H[1][j] + C ELSE H[1][j]])>>

(* H . beta for an integer H and a rational beta *)
MatMulRat(H, beta) == Rat(MatMul(H, beta.num), beta.den)

(* variant: output is computed from the closed-form beta, before the       *)
(* optimizer refines it                                                    *)
FitDoneOutputFirst(l, x, y) ==
    LET H0 == FeatureMap(l, x)
        H == IF l.C # None THEN AddToDiagonal(H0, Val(l.C)) ELSE H0
        pH == Pinv(H)
        beta == Rat(MatMul(pH.num, y), pH.den)
        opt == IF l.beta_optimizer # None
               THEN Optimize(Val(l.beta_optimizer), beta, H, y)
               ELSE [beta |-> beta, error_history |-> <<>>]
    IN  [l EXCEPT !.beta = Some(opt.beta),
                  !.error_history = IF l.beta_optimizer # None
                                    THEN Some(opt.error_history) ELSE @,
                  !.feature_map = Some(H),
                  !.output = Some(MatMulRat(H, beta))]

(* variant: a fit on a layer that has a beta keeps it *)
FitDoneKeepingBeta(l, x, y) ==
    LET H0 == FeatureMap(l, x)
        H == IF l.C # None THEN AddToDiagonal(H0, Val(l.C)) ELSE H0
        pH == Pinv(H)
        beta == Rat(MatMul(pH.num, y), pH.den)
        opt == IF l.beta_optimizer # None
               THEN Optimize(Val(l.beta_optimizer), beta, H, y)
               ELSE [beta |-> beta, error_history |-> <<>>]
        kept == IF l.beta # None THEN Val(l.beta) ELSE opt.beta
    IN  [l EXCEPT !.beta = Some(kept),
                  !.error_history = IF l.beta_optimizer # None
                                    THEN Some(opt.error_history) ELSE @,
                  !.feature_map = Some(H),
                  !.output = Some(MatMulRat(H, kept))]

(* variant: the optimizer runs, but beta keeps the closed-form solution *)
FitDoneClosedForm(l, x, y) ==
    LET H0 == FeatureMap(l, x)
        H == IF l.C # None THEN AddToDiagonal(H0, Val(l.C)) ELSE H0
        pH == Pinv(H)
        beta == Rat(MatMul(pH.num, y), pH.den)
        opt == IF l.beta_optimizer # None
               THEN Optimize(Val(l.beta_optimizer), beta, H, y)
               ELSE [beta |-> beta, error_history |-> <<>>]
    IN  [l EXCEPT !.beta = Some(beta),
                  !.error_history = IF l.beta_optimizer # None
                                    THEN Some(opt.error_history) ELSE @,
                  !.feature_map = Some(H),
                  !.output = Some(MatMulRat(H, beta))]

(* the layer as fit leaves it when it runs to its end *)
FitDone(l, x, y) ==
    LET H0 == FeatureMap(l, x)
        H == IF l.C # None THEN AddToDiagonal(H0, Val(l.C)) ELSE H0
        pH == Pinv(H)
        beta == Rat(MatMul(pH.num, y), pH.den)
        opt == IF l.beta_optimizer # None
               THEN Optimize(Val(l.beta_optimizer), beta, H, y)
               ELSE [beta |-> beta, error_history |-> <<>>]
    IN  [l EXCEPT !.beta = Some(opt.beta),
                  !.error_history = IF l.beta_optimizer # None
                                    THEN Some(opt.error_history) ELSE @,
                  !.feature_map = Some(H),
                  !.output = Some(MatMulRat(H, opt.beta))]

(* lines 254-259: the input is stored, the constrained weights are         *)
(* generated (and the result dropped), the receptive fields are applied    *)
FitPrepared(l, x, y) ==
    LET generated == IF l.constrained
                     THEN GenerateConstrainedWeights(x, y, l.number_neurons.int)
                     ELSE <<>>
    IN  [l EXCEPT !.input = Some(x),
                  !.alpha = IF l.receptive_field_generator # None /\ l.alpha # None
                            THEN Some(GenerateReceptiveFields(Val(l.alpha)))
                            ELSE @]

(* variant: fit swallows the exception of the feature map and returns *)
FitSwallowing(l, x, y) ==
    LET l1 == FitPrepared(l, x, y)
    IN  [layer |-> IF FeatureMapError(l1, x) # None THEN l1 ELSE FitDone(l1, x, y),
         ret |-> Returned("fit", <<x, y>>, None)]

Fit(l, x, y) ==
    LET l1 == FitPrepared(l, x, y)
    IN  IF FeatureMapError(l1, x) # None
        THEN [layer |-> l1, ret |-> Raised("fit", <<x, y>>, Val(FeatureMapError(l1, x)))]
        ELSE [layer |-> FitDone(l1, x, y), ret |-> Returned("fit", <<x, y>>, None)]

(* predict(x): the exception, or H . beta *)
PredictError(l, x) ==
    IF FeatureMapError(l, x) # None THEN FeatureMapError(l, x)
    ELSE IF l.beta = None THEN Some("ValueError")
    ELSE IF Cols(FeatureMap(l, x)) # Rows(Val(l.beta).num) THEN Some("InvalidArgumentError")
    ELSE None

(* variant: predict on a layer without beta returns the feature map *)
PredictFeatureMap(l, x) ==
    IF FeatureMapError(l, x) # None
    THEN Raised("predict", <<x>>, Val(FeatureMapError(l, x)))
    ELSE IF l.beta = None
    THEN Returned("predict", <<x>>, Rat(FeatureMap(l, x), 1))
    ELSE IF PredictError(l, x) # None
    THEN Raised("predict", <<x>>, Val(PredictError(l, x)))
    ELSE Returned("predict", <<x>>, MatMulRat(FeatureMap(l, x), Val(l.beta)))

Predict(l, x) ==
    IF PredictError(l, x) # None
    THEN Raised("predict", <<x>>, Val(PredictError(l, x)))
    ELSE Returned("predict", <<x>>, MatMulRat(FeatureMap(l, x), Val(l.beta)))

(* predict_proba(x): softmax of predict(x), kept symbolic *)
PredictProba(l, x) ==
    IF PredictError(l, x) # None
    THEN Raised("predict_proba", <<x>>, Val(PredictError(l, x)))
    ELSE Returned("predict_proba", <<x>>, [softmax |-> Predict(l, x).val])

(* calc_output(x): activation(x . beta^T), stored as output and returned *)
CalcOutputError(l, x) ==
    IF l.beta = None THEN Some("ValueError")
    ELSE IF Cols(x) # Cols(Val(l.beta).num) THEN Some("InvalidArgumentError")
    ELSE None

CalcOutputValue(l, x) ==
    LET z == MatMul(x, Transpose(Val(l.beta).num))
        den == Val(l.beta).den
    IN  Rat(<<[j \in 1..Cols(z) |-> ActScalar(l.activation_name, z[1][j], den)]>>, den)

CalcOutput(l, x) ==
    IF CalcOutputError(l, x) # None
    THEN [layer |-> l, ret |-> Raised("calc_output", <<x>>, Val(CalcOutputError(l, x)))]
    ELSE [layer |-> [l EXCEPT !.output = Some(CalcOutputValue(l, x))],
          ret |-> Returned("calc_output", <<x>>, CalcOutputValue(l, x))]

(***************************************************************************)
(* ELMLayer.count_params, to_dict, load                                    *)
(***************************************************************************)
(* variant: the bias is left out of the non-trainable count *)
CountParamsWithoutBias(l) ==
    LET trainable == IF l.beta = None THEN 0
                     ELSE Rows(Val(l.beta).num) * Cols(Val(l.beta).num)
        non_trainable == IF l.alpha = None \/ l.bias = None THEN 0
                         ELSE Rows(Val(l.alpha)) * Cols(Val(l.alpha))
    IN  [trainable |-> trainable, non_trainable |-> non_trainable,
         all |-> trainable + non_trainable]

CountParams(l) ==
    LET trainable == IF l.beta = None THEN 0
                     ELSE Rows(Val(l.beta).num) * Cols(Val(l.beta).num)
        non_trainable == IF l.alpha = None \/ l.bias = None THEN 0
                         ELSE Rows(Val(l.alpha)) * Cols(Val(l.alpha)) + Len(Val(l.bias))
    IN  [trainable |-> trainable, non_trainable |-> non_trainable,
         all |-> trainable + non_trainable]

(* lines 409-421: every attribute, None or not *)
Attributes(l) ==
    [k \in {"name", "number_neurons", "activation", "act_params", "C", "is_orthogonalized",
            "beta", "alpha", "bias", "denoising", "denoising_param"} |->
        CASE k = "name" -> Some("ELMLayer")
          [] k = "number_neurons" -> Some(l.number_neurons)
          [] k = "activation" -> Some(l.activation_name)
          [] k = "act_params" -> l.act_params
          [] k = "C" -> l.C
          [] k = "is_orthogonalized" -> Some(l.is_orthogonalized)
          [] k = "beta" -> l.beta
          [] k = "alpha" -> l.alpha
          [] k = "bias" -> l.bias
          [] k = "denoising" -> l.denoising
          [] k = "denoising_param" -> l.denoising_param]

(* dict.update: the entries of e added to, or replacing, those of d *)
Update(d, e) == [k \in DOMAIN d \cup DOMAIN e |-> IF k \in DOMAIN e THEN e[k] ELSE d[k]]

(* variant: the None entries are kept *)
ToDictKeepingNone(l) ==
    IF l.receptive_field_generator # None
    THEN Update(Attributes(l), ReceptiveFieldToDict(Val(l.receptive_field_generator)))
    ELSE Attributes(l)

(* lines 422-425: the generator's entries added, the None entries dropped *)
ToDict(l) ==
    LET attributes == IF l.receptive_field_generator # None
                      THEN Update(Attributes(l), ReceptiveFieldToDict(Val(l.receptive_field_generator)))
                      ELSE Attributes(l)
    IN  [k \in {key \in DOMAIN attributes : attributes[key] # None} |-> attributes[k]]

(* the defaults of __init__'s signature, lines 120-128 *)
DefaultArgs(number_neurons) ==
    [number_neurons |-> number_neurons,
     activation |-> "tanh",
     act_params |-> None,
     C |-> Some(0),
     beta_optimizer |-> None,
     is_orthogonalized |-> FALSE,
     receptive_field_generator |-> None,
     params |-> <<>>]

(* load(attributes) is cls(attributes): the dictionary is passed as the    *)
(* first positional argument, number_neurons                               *)
Load(attributes) ==
    LET made == Construct(DefaultArgs(attributes))
    IN  IF made.ret.kind = "error"
        THEN Raised("load", <<attributes>>, made.ret.type)
        ELSE Returned("load", <<attributes>>, made.layer)

(***************************************************************************)
(* The callers: the arguments the methods are driven with                  *)
(***************************************************************************)
(* one-row batches of every width up to w with a single 1 in them *)
UnitRows(w) ==
    UNION {{<<Vector([k \in 1..K |-> IF k = c THEN 1 ELSE 0])>> : c \in 1..K} : K \in 1..w}

(* sample batches *)
Inputs == UnitRows(MaxFeatures)

(* one-hot targets (to_categorical) *)
Targets == UnitRows(MaxOutputs)

Neurons == {PyInt(n) : n \in 1..MaxNeurons}

ActParamKeys == {"act_param", "act_param2", "knots"}

(* weights handed to the constructor as alpha=, bias=, beta= *)
GivenWeights(n) ==
    [alpha |-> Some(RandomUniformAlpha(2, 2, n.int)),
     bias |-> Some(RandomUniformBias(2, n.int)),
     beta |-> Some(Rat(Matrix([j \in 1..n.int |-> <<1>>]), 1))]

(* constructor calls: each family varies some arguments and leaves the     *)
(* others at their defaults                                                *)
SolverArgs ==
    {[DefaultArgs(n) EXCEPT !.C = c, !.beta_optimizer = o] :
        n \in Neurons, c \in {None, Some(0), Some(1)}, o \in {None, Some("ista")}}
    \cup {[DefaultArgs(PyInt(1)) EXCEPT !.beta_optimizer = Some("identity")]}

WeightArgs ==
    {[DefaultArgs(PyInt(MaxNeurons)) EXCEPT !.activation = "identity",
                                            !.is_orthogonalized = orth,
                                            !.receptive_field_generator = rf,
                                            !.params = con] :
        orth \in BOOLEAN,
        rf \in {None, Some(ReceptiveFieldLoad("ReceptiveFieldGenerator"))},
        con \in {<<>>, [k \in {"constrained"} |-> Some(TRUE)]}}

GivenArgs ==
    {[DefaultArgs(PyInt(MaxNeurons)) EXCEPT
            !.params = [k \in ks |-> GivenWeights(PyInt(MaxNeurons))[k]]] :
        ks \in SUBSET {"alpha", "bias", "beta"}}

ActivationArgs ==
    {[DefaultArgs(PyInt(1)) EXCEPT !.activation = a, !.act_params = p] :
        a \in ActivationNames \cup {"nosuch"},
        p \in {None} \cup {Some(ks) : ks \in SUBSET ActParamKeys}}

KeywordArgs ==
    {[DefaultArgs(PyInt(1)) EXCEPT !.params = [k \in ks |->
            CASE k = "denoising" -> Some("sp")
              [] k = "denoising_param" -> Some(8)
              [] k = "constrained" -> Some(FALSE)
              [] k = "rf_name" -> Some(rf)]] :
        ks \in SUBSET {"denoising", "denoising_param", "constrained", "rf_name"},
        rf \in {"ReceptiveFieldGaussianGenerator", "NoSuchGenerator"}}

(* the constructor calls of the training runs, and of the persistence runs *)
TrainingArgs == SolverArgs \cup WeightArgs \cup GivenArgs

CtorArgs == TrainingArgs \cup ActivationArgs \cup KeywordArgs

(***************************************************************************)
(* The state machine                                                       *)
(*   layer  the instance (NoLayer before a constructor returned)           *)
(*   ret    the last call, its arguments and its outcome                   *)
(*   hist   what has been called on the instance so far                    *)
(***************************************************************************)
NoCall == [op |-> "none", args |-> <<>>, kind |-> "value", val |-> None]

(*   built       build has been called                                     *)
(*   fit_called  fit has been called                                       *)
(*   fitted      a fit has run to its end                                  *)
(*   last        the last call that changed the instance                   *)
(*   given       the weights the constructor was handed as keywords        *)
(*   features    input_shape[-1] of the build call (0 before it)           *)
(*   outputs     the width of y in the last fit that ran to its end        *)
(*   refit       the last fit call came after a fit that ran to its end    *)
NoHist == [built |-> FALSE, fit_called |-> FALSE, fitted |-> FALSE, last |-> "none",
           given |-> {}, features |-> 0, outputs |-> 0, refit |-> FALSE]

(* Calls that only observe (predict, predict_proba, count_params, to_dict, *)
(* load) leave layer and hist as they are, and no call that changes the    *)
(* instance reads ret.  A changing call is therefore taken from the states *)
(* a constructor or a changing call left: the states reached are the same  *)
(* as when it is taken from everywhere.                                    *)
Settled == ret.op \in {"none", "__init__", "build", "fit", "calc_output"}

Init ==
    /\ layer = NoLayer
    /\ ret = NoCall
    /\ hist = NoHist

New(args) ==
    /\ ~layer.exists
    /\ LET made == Construct(args)
       IN  /\ layer' = made.layer
           /\ ret' = made.ret
           /\ hist' = IF made.ret.kind = "error" THEN NoHist
                      ELSE [NoHist EXCEPT !.last = "__init__",
                                          !.given = DOMAIN args.params \cap {"alpha", "bias", "beta"}]

DoBuild(D, seed) ==
    /\ layer.exists
    /\ Settled
    /\ ~hist.built
    /\ BuildExact(layer, D, seed)
    /\ LET made == Build(layer, D, seed)
       IN  /\ layer' = made.layer
           /\ ret' = made.ret
    /\ hist' = [hist EXCEPT !.built = TRUE, !.last = "build", !.features = D]

DoFit(x, y) ==
    /\ layer.exists
    /\ Settled
    /\ LET made == Fit(layer, x, y)
       IN  /\ layer' = made.layer
           /\ ret' = made.ret
           /\ hist' = IF made.ret.kind = "error"
                      THEN [hist EXCEPT !.fit_called = TRUE, !.last = "fit raised",
                                        !.refit = hist.fitted]
                      ELSE [hist EXCEPT !.fit_called = TRUE, !.fitted = TRUE, !.last = "fit",
                                        !.outputs = Cols(y), !.refit = hist.fitted]

(* variant: predict caches what it returns in output, as calc_output does *)
DoPredictCaching(x) ==
    /\ layer.exists
    /\ ret' = Predict(layer, x)
    /\ layer' = IF Predict(layer, x).kind = "value"
                THEN [layer EXCEPT !.output = Some(Predict(layer, x).val)]
                ELSE layer
    /\ UNCHANGED hist

DoPredict(x) ==
    /\ layer.exists
    /\ ret' = Predict(layer, x)
    /\ UNCHANGED <<layer, hist>>

DoPredictProba(x) ==
    /\ layer.exists
    /\ ret' = PredictProba(layer, x)
    /\ UNCHANGED <<layer, hist>>

DoCalcOutput(x) ==
    /\ layer.exists
    /\ Settled
    /\ LET made == CalcOutput(layer, x)
       IN  /\ layer' = made.layer
           /\ ret' = made.ret
           /\ hist' = IF made.ret.kind = "error" THEN hist
                      ELSE [hist EXCEPT !.last = "calc_output"]

DoCountParams ==
    /\ layer.exists
    /\ ret' = Returned("count_params", <<>>, CountParams(layer))
    /\ UNCHANGED <<layer, hist>>

DoToDict ==
    /\ layer.exists
    /\ ret' = Returned("to_dict", <<>>, ToDict(layer))
    /\ UNCHANGED <<layer, hist>>

(* a dictionary without some of its keys (a damaged file) *)
Without(d, ks) == [k \in DOMAIN d \ ks |-> d[k]]

(* ELMLayer.load on the dictionary to_dict just returned, whole or damaged *)
DoLoad(dropped) ==
    /\ ret.op = "to_dict"
    /\ ret' = Load(Without(ret.val, dropped))
    /\ UNCHANGED <<layer, hist>>

(* predict on the instance load just returned *)
DoLoadedPredict(x) ==
    /\ ret.op = "load" /\ ret.kind = "value"
    /\ ret' = [op |-> "loaded.predict", args |-> <<x>>, self |-> ret.val,
               from |-> ret.args[1], outcome |-> Predict(ret.val, x)]
    /\ UNCHANGED <<layer, hist>>

(* Training runs: construct, build, fit and use the layer *)
Next ==
    \/ \E args \in TrainingArgs : New(args)
    \/ \E D \in 1..MaxFeatures, seed \in 1..MaxSeed : DoBuild(D, seed)
    \/ \E x \in Inputs, y \in Targets : DoFit(x, y)
    \/ \E x \in Inputs : DoPredict(x)
    \/ \E x \in Inputs : DoPredictProba(x)

Spec == Init /\ [][Next]_vars

(* Chaining runs: as the training runs, with calc_output feeding a next layer *)
NextOutput ==
    \/ \E args \in SolverArgs : New(args)
    \/ \E D \in 1..MaxFeatures, seed \in 1..MaxSeed : DoBuild(D, seed)
    \/ \E x \in Inputs, y \in Targets : DoFit(x, y)
    \/ \E x \in Inputs : DoPredict(x)
    \/ \E x \in Inputs : DoPredictProba(x)
    \/ \E x \in Inputs : DoCalcOutput(x)

SpecOutput == Init /\ [][NextOutput]_vars

(* Persistence runs: construct, build, fit, then count, save and load *)
NextPersist ==
    \/ \E args \in CtorArgs : New(args)
    \/ \E D \in 1..MaxFeatures, seed \in 1..MaxSeed : DoBuild(D, seed)
    \/ \E x \in Inputs, y \in Targets : DoFit(x, y)
    \/ DoCountParams
    \/ DoToDict
    \/ \E dropped \in {{}, {"number_neurons"}} : DoLoad(dropped)
    \/ \E x \in Inputs : DoLoadedPredict(x)

SpecPersist == Init /\ [][NextPersist]_vars

(***************************************************************************)
(* The properties                                                          *)
(***************************************************************************)

(* C1: a fit on a layer whose alpha and bias are absent (build was never   *)
(* called) raises, and leaves beta, feature_map and output as they were:   *)
(* absent, on a layer the constructor was handed no weights.               *)
C1_FitBeforeBuildRaises ==
    [][(layer.exists /\ ret'.op = "fit" /\ layer.alpha = None /\ layer.bias = None)
         => /\ ret'.kind = "error"
            /\ layer'.beta = layer.beta
            /\ layer'.feature_map = layer.feature_map
            /\ layer'.output = layer.output
            /\ (hist.given = {}
                  => layer'.beta = None /\ layer'.feature_map = None /\ layer'.output = None)]_vars

C1_Witness ==
    /\ layer.exists /\ ret.op = "fit" /\ ret.kind = "error"
    /\ ~hist.built /\ hist.given = {}
    /\ layer.alpha = None /\ layer.bias = None
    /\ layer.beta = None /\ layer.feature_map = None /\ layer.output = None

(* C2, as stated: predict raises whenever fit has not been called on the   *)
(* instance, however it was constructed.                                   *)
C2_PredictBeforeFitRaises ==
    (layer.exists /\ ret.op = "predict" /\ ~hist.fit_called) => ret.kind = "error"

(* C2, amended: on an instance constructed without a beta keyword, predict *)
(* raises whenever no fit has run to its end.                              *)
C2_PredictWithoutBetaRaises ==
    (layer.exists /\ ret.op = "predict" /\ ~hist.fitted /\ "beta" \notin hist.given)
        => ret.kind = "error"

C2_Witness ==
    /\ layer.exists /\ ret.op = "predict" /\ ret.kind = "error"
    /\ hist.built /\ ~hist.fit_called /\ "beta" \notin hist.given
    /\ FeatureMapError(layer, ret.args[1]) = None

(* C3, as stated: whatever C is, predict on the samples of the fit that    *)
(* just ran to its end returns the output that fit stored.                 *)
C3_PredictEqualsOutput ==
    (layer.exists /\ hist.last = "fit" /\ ret.op = "predict" /\ ret.args = <<Val(layer.input)>>)
        => (ret.kind = "value" /\ ret.val = Val(layer.output))

(* C3, amended: when C is 0 or None, predict on the samples of the fit     *)
(* that just ran to its end returns the output that fit stored.            *)
C3_PredictEqualsOutputWithoutC ==
    (/\ layer.exists /\ hist.last = "fit" /\ ret.op = "predict" /\ ret.args = <<Val(layer.input)>>
     /\ (layer.C = None \/ layer.C = Some(0)))
        => (ret.kind = "value" /\ ret.val = Val(layer.output))

C3_Witness ==
    /\ layer.exists /\ hist.last = "fit" /\ ret.op = "predict" /\ ret.args = <<Val(layer.input)>>
    /\ layer.C = Some(0) /\ layer.beta_optimizer # None
    /\ ret.kind = "value" /\ ret.val = Val(layer.output)
    /\ \E i \in 1..Rows(ret.val.num), j \in 1..Cols(ret.val.num) : ret.val.num[i][j] # 0

(* C4: a layer loaded from the to_dict of a fitted layer has its           *)
(* number_neurons, activation, C, is_orthogonalized, alpha, bias and beta, *)
(* and predicts as the fitted layer does.                                  *)
C4_LoadRestoresLayer ==
    (layer.exists /\ hist.fitted /\ ret.op = "loaded.predict" /\ ret.from = ToDict(layer))
        => /\ ret.self.number_neurons = layer.number_neurons
           /\ ret.self.activation_name = layer.activation_name
           /\ ret.self.C = layer.C
           /\ ret.self.is_orthogonalized = layer.is_orthogonalized
           /\ ret.self.alpha = layer.alpha
           /\ ret.self.bias = layer.bias
           /\ ret.self.beta = layer.beta
           /\ ret.outcome = Predict(layer, ret.args[1])

(* C5, as stated: count_params returns zeros before build; D x N + N       *)
(* non-trainable and 0 trainable after build and before fit; N x K         *)
(* trainable after a fit on targets of width K; all is always the sum.     *)
C5_CountParams ==
    (layer.exists /\ ret.op = "count_params")
        => /\ ret.val.all = ret.val.trainable + ret.val.non_trainable
           /\ (~hist.built /\ ~hist.fitted
                 => ret.val.trainable = 0 /\ ret.val.non_trainable = 0 /\ ret.val.all = 0)
           /\ (hist.built /\ ~hist.fitted
                 => /\ ret.val.non_trainable
                         = hist.features * layer.number_neurons.int + layer.number_neurons.int
                    /\ ret.val.trainable = 0)
           /\ (hist.fitted => ret.val.trainable = layer.number_neurons.int * hist.outputs)

(* C5, amended: the same, on a layer the constructor was handed no alpha,  *)
(* bias or beta keyword.                                                   *)
C5_CountParamsNoGivenWeights ==
    (layer.exists /\ ret.op = "count_params" /\ hist.given = {})
        => /\ ret.val.all = ret.val.trainable + ret.val.non_trainable
           /\ (~hist.built /\ ~hist.fitted
                 => ret.val.trainable = 0 /\ ret.val.non_trainable = 0 /\ ret.val.all = 0)
           /\ (hist.built /\ ~hist.fitted
                 => /\ ret.val.non_trainable
                         = hist.features * layer.number_neurons.int + layer.number_neurons.int
                    /\ ret.val.trainable = 0)
           /\ (hist.fitted => ret.val.trainable = layer.number_neurons.int * hist.outputs)

C5_Witness ==
    /\ layer.exists /\ ret.op = "count_params" /\ hist.given = {}
    /\ hist.fitted /\ hist.features = 2 /\ hist.outputs = 2
    /\ layer.number_neurons.int = 2
    /\ ret.val = [trainable |-> 4, non_trainable |-> 6, all |-> 10]

(* C6: to_dict has the key of alpha, bias, beta, denoising,                *)
(* denoising_param and act_params exactly when the attribute is not None,  *)
(* and the layer load makes of a dictionary has None for each of these     *)
(* keys the dictionary lacks.                                              *)
C6_OmittedIffNone ==
    LET keys == {"alpha", "bias", "beta", "denoising", "denoising_param", "act_params"}
    IN  /\ (layer.exists /\ ret.op = "to_dict")
              => \A k \in keys : (k \in DOMAIN ret.val) <=> (layer[k] # None)
        /\ (layer.exists /\ ret.op = "load" /\ ret.kind = "value")
              => \A k \in keys \ DOMAIN ret.args[1] : ret.val[k] = None

C6_Witness ==
    /\ layer.exists /\ ret.op = "load" /\ ret.kind = "value"
    /\ hist.built /\ ~hist.fitted
    /\ ret.args[1] = ToDict(layer)
    /\ {"alpha", "bias"} \subseteq DOMAIN ret.args[1]
    /\ {"beta", "denoising", "denoising_param", "act_params"} \cap DOMAIN ret.args[1] = {}
    /\ ret.val.beta = None /\ ret.val.denoising = None

(* C7: load on a dictionary without the number_neurons key raises, and     *)
(* returns no instance.                                                    *)
C7_LoadWithoutNeuronsRaises ==
    (ret.op = "load" /\ "number_neurons" \notin DOMAIN ret.args[1]) => ret.kind = "error"

C9_WeightsInvariant ==
    layer.exists
        => /\ (layer.alpha = None) <=> (layer.bias = None)
           /\ layer.beta # None => hist.fitted

(* C9, amended: alpha and bias are both None or both set, unless the       *)
(* constructor was handed exactly one of them and build has not been       *)
(* called; beta is set only if a fit has run to its end or the constructor *)
(* was handed it.                                                          *)
C9_WeightsInvariantUnlessGiven ==
    layer.exists
        => /\ \/ (layer.alpha = None) <=> (layer.bias = None)
              \/ ~hist.built /\ ("alpha" \in hist.given) # ("bias" \in hist.given)
           /\ layer.beta # None => (hist.fitted \/ "beta" \in hist.given)

C9_Witness ==
    /\ layer.exists /\ hist.given = {} /\ ret.op = "predict"
    /\ hist.built /\ hist.fitted /\ hist.last = "fit raised"
    /\ layer.alpha # None /\ layer.bias # None /\ layer.beta # None

(* C10: after a fit on a layer constructed with constrained = True, alpha  *)
(* is the matrix generated from the samples and labels of that fit (with   *)
(* the receptive fields applied to it when a generator is configured), not *)
(* the matrix build drew, and the feature map is computed from it.         *)
C10_ConstrainedReplacesAlpha ==
    (layer.exists /\ layer.constrained /\ ret.op = "fit" /\ ret.kind = "value")
        => LET x == ret.args[1]
               y == ret.args[2]
               generated == GenerateConstrainedWeights(x, y, layer.number_neurons.int)
               alpha == IF layer.receptive_field_generator # None
                        THEN GenerateReceptiveFields(generated) ELSE generated
           IN  /\ layer.alpha = Some(alpha)
               /\ layer.feature_map = FitDone([layer EXCEPT !.alpha = Some(alpha)], x, y).feature_map

(* C11: error_history is set only on a layer with a beta optimizer; a fit  *)
(* that ran to its end on such a layer left in beta and error_history what *)
(* the optimizer returned for (pinv(H) . y, H, y), and on a layer without  *)
(* an optimizer it left pinv(H) . y in beta.                               *)
C11_OptimizerResultStored ==
    /\ (layer.exists /\ layer.error_history # None) => layer.beta_optimizer # None
    /\ (layer.exists /\ ret.op = "fit" /\ ret.kind = "value")
          => LET y == ret.args[2]
                 H == Val(layer.feature_map)
                 solved == Rat(MatMul(Pinv(H).num, y), Pinv(H).den)
             IN  IF layer.beta_optimizer # None
                 THEN /\ layer.beta = Some(Optimize(Val(layer.beta_optimizer), solved, H, y).beta)
                      /\ layer.error_history
                           = Some(Optimize(Val(layer.beta_optimizer), solved, H, y).error_history)
                 ELSE layer.beta = Some(solved)

C11_Witness ==
    /\ layer.exists /\ ret.op = "fit" /\ ret.kind = "value"
    /\ layer.beta_optimizer = Some("ista")
    /\ layer.error_history # None /\ Len(Val(layer.error_history)) = 1
    /\ LET H == Val(layer.feature_map)
       IN  layer.beta # Some(Rat(MatMul(Pinv(H).num, ret.args[2]), Pinv(H).den))

C13_PredictLeavesLayer ==
    [][/\ (layer.exists /\ ret'.op \in {"predict", "predict_proba"})
            => /\ layer' = layer
               /\ \A x \in Inputs : Predict(layer', x) = Predict(layer, x)
       /\ (layer.exists /\ ret'.op = "calc_output")
            => IF ret'.kind = "value"
               THEN layer' = [layer EXCEPT !.output = Some(ret'.val)]
               ELSE layer' = layer]_vars

(* predict returned on a fitted layer whose output calc_output overwrote *)
C13_Witness ==
    /\ layer.exists /\ ret.op = "predict" /\ ret.kind = "value"
    /\ hist.fitted /\ hist.last = "calc_output"
    /\ layer.output # None /\ layer.output # Some(ret.val)
====
